---- MODULE Spec2Model ----
(***************************************************************************)
(* Model of the pantry backend: the SQLite tables storage_areas and items  *)
(* (backend/src/db.ts) and the Express handlers of the items and           *)
(* storage-areas routers that read and write them.                         *)
(*                                                                         *)
(* Strings are sequences of code points, so that trim() and LOWER() are    *)
(* computed.  Calendar dates ("YYYY-MM-DD") are day numbers; instants are  *)
(* counted in hours.  Generated ids and Date.now() are values of a clock   *)
(* that advances with every request that stores a generated id.            *)
(***************************************************************************)
EXTENDS Integers, Sequences, FiniteSets, TLC

VARIABLES areas, items, clock, tz, disliked, store, card, last, pc

vars == <<areas, items, clock, tz, disliked, store, card, last, pc>>

----------------------------------------------------------------------------
(* Bounds of the model *)

\* ids generated and stored (by inserts and splits) in one behaviour
MaxClock == 2
\* largest total of the quantities kept in the items table
MaxQty == 4
\* rows kept in the storage_areas table
MaxAreas == 3
\* the calendar day (in local time) on which the requests are served
Today == 10

(* Values *)

\* SQL NULL / JS undefined in a nullable column or optional field
NULL == -1
\* the empty string '' in the expiry_date column
EMPTY == -2

\* ids of DEFAULT_STORAGE_AREAS
fridge == 101
freezer == 102
pantry == 103

\* the code point of the space character, which trim() strips
SP == 32

\* hours in a day: 1000 * 60 * 60 * 24 ms
DayMs == 24

Max(a, b) == IF a >= b THEN a ELSE b

\* Math.floor(a / b) and Math.ceil(a / b) for b > 0
Floor(a, b) == a \div b
Ceil(a, b) == -((-a) \div b)

----------------------------------------------------------------------------
(* String helpers *)

RECURSIVE TrimStart(_)
TrimStart(s) ==
  IF s # <<>> /\ Head(s) = SP THEN TrimStart(Tail(s)) ELSE s

RECURSIVE TrimEnd(_)
TrimEnd(s) ==
  IF s # <<>> /\ s[Len(s)] = SP THEN TrimEnd(SubSeq(s, 1, Len(s) - 1)) ELSE s

\* a name field missing from a request body (undefined)
NoName == <<NULL>>
\* an icon or color field missing from a request body (undefined)
NoTag == "undefined"

\* name?.trim(): String.prototype.trim, and undefined when the name is absent
Trim(name) == IF name = NoName THEN NoName ELSE TrimEnd(TrimStart(name))

\* a check that no name fails
IsBlank_Never(trimmedName) == FALSE

\* !trimmedName : undefined or ''
IsBlank(trimmedName) == trimmedName = NoName \/ trimmedName = <<>>

\* SQLite LOWER(): folds the ASCII letters A-Z only
LowerChar(c) == IF c >= 65 /\ c <= 90 THEN c + 32 ELSE c
LOWER(s) == [i \in 1..Len(s) |-> LowerChar(s[i])]

\* JS falsiness of an optional string: undefined/null or ''
Falsy(e) == e = NULL \/ e = EMPTY
\* expiryDate || null
OrNull(e) == IF Falsy(e) THEN NULL ELSE e

----------------------------------------------------------------------------
(* The items table and its prepared statements *)

\* a = b in a WHERE clause: never true when either side is NULL
SqlEq(a, b) == a # NULL /\ b # NULL /\ a = b

\* the lookup without its "is_opened = 0" condition
findMergeable_AnyOpened(its, storageAreaId, name, expiryDate) ==
  { id \in DOMAIN its :
      /\ its[id].storageAreaId = storageAreaId
      /\ LOWER(its[id].name) = LOWER(name)
      /\ \/ SqlEq(its[id].expiryDate, expiryDate)
         \/ (its[id].expiryDate = NULL /\ expiryDate = NULL) }

findMergeable(its, storageAreaId, name, expiryDate) ==
  { id \in DOMAIN its :
      /\ its[id].storageAreaId = storageAreaId
      /\ LOWER(its[id].name) = LOWER(name)
      /\ ~its[id].isOpened
      /\ \/ SqlEq(its[id].expiryDate, expiryDate)
         \/ (its[id].expiryDate = NULL /\ expiryDate = NULL) }

insert(its, row) == (row.id :> row) @@ its

\* an update that adds to the quantity column where the statement sets it
updateQuantity_Adds(its, id, quantity) ==
  [i \in DOMAIN its |->
     IF i = id THEN [its[i] EXCEPT !.quantity = @ + quantity] ELSE its[i]]

updateQuantity(its, id, quantity) ==
  [i \in DOMAIN its |-> IF i = id THEN [its[i] EXCEPT !.quantity = quantity] ELSE its[i]]

\* an update that leaves opened_at as it was
update_KeepsOpenedAt(its, id, name, quantity, isOpened, openedAt, expiryDate) ==
  [i \in DOMAIN its |->
     IF i = id
     THEN [its[i] EXCEPT !.name = name, !.quantity = quantity, !.isOpened = isOpened,
                         !.expiryDate = expiryDate]
     ELSE its[i]]

update(its, id, name, quantity, isOpened, openedAt, expiryDate) ==
  [i \in DOMAIN its |->
     IF i = id
     THEN [its[i] EXCEPT !.name = name, !.quantity = quantity, !.isOpened = isOpened,
                         !.openedAt = openedAt, !.expiryDate = expiryDate]
     ELSE its[i]]

delete(its, id) == [i \in DOMAIN its \ {id} |-> its[i]]

deleteByStorageArea(its, storageAreaId) ==
  [i \in {j \in DOMAIN its : its[j].storageAreaId # storageAreaId} |-> its[i]]

\* FOREIGN KEY (storage_area_id) REFERENCES storage_areas(id), enforced on insert
\* a database that does not enforce its foreign keys
ForeignKeyOk_Off(ars, row) == TRUE

ForeignKeyOk(ars, row) == row.storageAreaId \in DOMAIN ars

\* the sum of the quantity column over a set of rows
RECURSIVE SumQuantity(_, _)
SumQuantity(its, ids) ==
  IF ids = {} THEN 0
  ELSE LET i == CHOOSE x \in ids : TRUE
       IN its[i].quantity + SumQuantity(its, ids \ {i})

totalQuantity(its) == SumQuantity(its, DOMAIN its)

\* the table kept inside the model's range
InRange(its) == totalQuantity(its) <= MaxQty /\ \A i \in DOMAIN its : its[i].quantity >= 0

----------------------------------------------------------------------------
(* Expiry recomputation of PUT /api/items/:id/open *)

\* today.setHours(0, 0, 0, 0): local midnight as an instant, tz hours east of UTC
TodayMidnight(zone) == Today * DayMs - zone

\* new Date("YYYY-MM-DD").getTime(): midnight UTC of that day
DateTime(day) == day * DayMs

\* new Date(t).toISOString().split('T')[0]: the UTC calendar day of an instant
IsoDate(t) == Floor(t, DayMs)

daysLeftOf(expiryDate, zone) == Ceil(DateTime(expiryDate) - TodayMidnight(zone), DayMs)

newExpiryDateOf(expiryDate, zone) ==
  IF Falsy(expiryDate) THEN expiryDate
  ELSE LET daysLeft == daysLeftOf(expiryDate, zone) IN
       IF daysLeft > 1
       THEN LET newDaysLeft == Max(1, Floor(daysLeft, 2))
                newExpiryTime == TodayMidnight(zone) + newDaysLeft * DayMs
            IN IsoDate(newExpiryTime)
       ELSE expiryDate

----------------------------------------------------------------------------
(* Requests *)

\* quantities sent to PUT /api/items/:id/quantity, and quantityToOpen values sent
\* to PUT /api/items/:id/open
QtyInputs == { 0, 1, 2 }
\* bodies sent to POST /api/items without the quantity: "M" in the fridge with no
\* expiry, and the bodies that differ from it in the case of the name ("m "), in
\* the name ("b"), in the area, or in the expiry (a date four days after Today,
\* or "")
ValidCreateInputs ==
  { [name |-> <<77>>, storageAreaId |-> fridge, expiryDate |-> NULL],
    [name |-> <<109, SP>>, storageAreaId |-> fridge, expiryDate |-> NULL],
    [name |-> <<98>>, storageAreaId |-> fridge, expiryDate |-> NULL],
    [name |-> <<77>>, storageAreaId |-> freezer, expiryDate |-> NULL],
    [name |-> <<77>>, storageAreaId |-> fridge, expiryDate |-> Today + 4],
    [name |-> <<77>>, storageAreaId |-> fridge, expiryDate |-> EMPTY] }
\* the bodies sent to POST /api/items: the ones above with quantity 1, the first
\* of them with quantity 2 as well, and four that differ from the first in one
\* field: a name of " ", quantity 0, no storageAreaId, a storageAreaId that no
\* area has
CreateInputs ==
  { [name |-> b.name, quantity |-> 1, storageAreaId |-> b.storageAreaId,
     expiryDate |-> b.expiryDate] : b \in ValidCreateInputs }
  \cup
  { [name |-> <<77>>, quantity |-> 2, storageAreaId |-> fridge, expiryDate |-> NULL],
    [name |-> <<SP>>, quantity |-> 1, storageAreaId |-> fridge, expiryDate |-> NULL],
    [name |-> <<77>>, quantity |-> 0, storageAreaId |-> fridge, expiryDate |-> NULL],
    [name |-> <<77>>, quantity |-> 1, storageAreaId |-> NULL, expiryDate |-> NULL],
    [name |-> <<77>>, quantity |-> 1, storageAreaId |-> 100, expiryDate |-> NULL] }
\* item ids a request can name: the ids the clock can have issued
ItemIdInputs == 1..MaxClock

\* the last request served: its operation, HTTP status and the records it returned
Reply(op, status, body) == [op |-> op, status |-> status, body |-> body]

\* the handler that is running: its route, the statement it has reached, and the
\* id and the quantity of its request; a handler without an await runs to its
\* end before the next request is taken up, so between requests none is running
Running(op, at, id, arg) == [op |-> op, at |-> at, id |-> id, arg |-> arg]
Idle == Running("idle", 0, NULL, NULL)

----------------------------------------------------------------------------
(* Items router *)

\* const newQuantity = existingItem.quantity + quantity
mergedQuantity(existingQuantity, quantity) == existingQuantity + quantity

\* a new record that is stamped with the time of its creation as openedAt
newItemOf_Stamped(id, trimmedName, quantity, storageAreaId, now, expiryDate) ==
  [id |-> id, name |-> trimmedName, quantity |-> quantity,
   storageAreaId |-> storageAreaId, createdAt |-> now,
   isOpened |-> FALSE, openedAt |-> now, expiryDate |-> expiryDate]

\* the new record of POST /api/items
newItemOf(id, trimmedName, quantity, storageAreaId, now, expiryDate) ==
  [id |-> id, name |-> trimmedName, quantity |-> quantity,
   storageAreaId |-> storageAreaId, createdAt |-> now,
   isOpened |-> FALSE, openedAt |-> NULL, expiryDate |-> expiryDate]

\* an opened record that takes the time of the split as its createdAt
openedItemOf_CreatedNow(id, item, quantityToOpen, now, newExpiryDate) ==
  [id |-> id, name |-> item.name, quantity |-> quantityToOpen,
   storageAreaId |-> item.storageAreaId, createdAt |-> now,
   isOpened |-> TRUE, openedAt |-> now, expiryDate |-> newExpiryDate]

\* the opened record that a split adds
openedItemOf(id, item, quantityToOpen, now, newExpiryDate) ==
  [id |-> id, name |-> item.name, quantity |-> quantityToOpen,
   storageAreaId |-> item.storageAreaId, createdAt |-> item.createdAt,
   isOpened |-> TRUE, openedAt |-> now, expiryDate |-> newExpiryDate]

\* POST /api/items
CreateOrMergeItem(name, quantity, storageAreaId, expiryDate) ==
  LET trimmedName == Trim(name)
  IN
  IF IsBlank(trimmedName) \/ quantity < 1 \/ storageAreaId = NULL
  THEN /\ last' = Reply("createOrMergeItem", 400, <<>>)
       /\ UNCHANGED <<areas, items, clock, tz, disliked, store, card, pc>>
  ELSE LET found == findMergeable(items, storageAreaId, trimmedName, OrNull(expiryDate)) IN
       IF found # {}
       THEN \E existing \in found :
              LET newQuantity == mergedQuantity(items[existing].quantity, quantity) IN
              /\ items' = updateQuantity(items, existing, newQuantity)
              /\ InRange(items')
              /\ last' = Reply("createOrMergeItem", 200, <<items'[existing]>>)
              /\ UNCHANGED <<areas, clock, tz, disliked, store, card, pc>>
       ELSE LET newItem == newItemOf(clock, trimmedName, quantity, storageAreaId, clock,
                                     expiryDate)
            IN
            IF ForeignKeyOk(areas, newItem)
            THEN /\ clock <= MaxClock
                 /\ clock' = clock + 1
                 /\ items' = insert(items, newItem)
                 /\ InRange(items')
                 /\ last' = Reply("createOrMergeItem", 201, <<newItem>>)
                 /\ UNCHANGED <<areas, tz, disliked, store, card, pc>>
            ELSE /\ last' = Reply("createOrMergeItem", 500, <<>>)
                 /\ UNCHANGED <<areas, items, clock, tz, disliked, store, card, pc>>

\* PUT /api/items/:id/quantity
AdjustQuantity(id, quantity) ==
  IF id \notin DOMAIN items
  THEN /\ last' = Reply("adjustQuantity", 404, <<>>)
       /\ UNCHANGED <<areas, items, clock, tz, disliked, store, card, pc>>
  ELSE IF quantity < 1
  THEN /\ items' = delete(items, id)
       /\ last' = Reply("adjustQuantity", 204, <<>>)
       /\ UNCHANGED <<areas, clock, tz, disliked, store, card, pc>>
  ELSE /\ items' = updateQuantity(items, id, quantity)
       /\ InRange(items')
       /\ last' = Reply("adjustQuantity", 200, <<items'[id]>>)
       /\ UNCHANGED <<areas, clock, tz, disliked, store, card, pc>>

\* PUT /api/items/:id/open
OpenItem(id, quantityToOpen) ==
  IF id \notin DOMAIN items
  THEN /\ last' = Reply("openItem", 404, <<>>)
       /\ UNCHANGED <<areas, items, clock, tz, disliked, store, card, pc>>
  ELSE LET item == items[id]
           newExpiryDate == newExpiryDateOf(item.expiryDate, tz)
       IN
       IF quantityToOpen >= item.quantity
       THEN /\ items' = update(items, id, item.name, item.quantity, TRUE, clock,
                               OrNull(newExpiryDate))
            /\ last' = Reply("openItem", 200, <<items'[id]>>)
            /\ UNCHANGED <<areas, clock, tz, disliked, store, card, pc>>
       ELSE LET openedItem == openedItemOf(clock, item, quantityToOpen, clock, newExpiryDate)
            IN
            /\ clock <= MaxClock
            /\ clock' = clock + 1
            /\ items' = insert(updateQuantity(items, id, item.quantity - quantityToOpen),
                               openedItem)
            /\ InRange(items')
            /\ last' = Reply("openItem", 200, <<items'[id], openedItem>>)
            /\ UNCHANGED <<areas, tz, disliked, store, card, pc>>

\* DELETE /api/items/:id
DeleteItem(id) ==
  IF id \notin DOMAIN items
  THEN /\ last' = Reply("deleteItem", 404, <<>>)
       /\ UNCHANGED <<areas, items, clock, tz, disliked, store, card, pc>>
  ELSE /\ items' = delete(items, id)
       /\ last' = Reply("deleteItem", 204, <<>>)
       /\ UNCHANGED <<areas, clock, tz, disliked, store, card, pc>>

----------------------------------------------------------------------------
(* The storage_areas table and its prepared statements *)

\* 'Fridge', 'Freezer', 'Pantry'
DEFAULT_STORAGE_AREAS ==
  (fridge :> [id |-> fridge, name |-> <<70, 114, 105, 100, 103, 101>>,
              icon |-> "refrigerator", color |-> "cyan", order |-> 0])
  @@ (freezer :> [id |-> freezer, name |-> <<70, 114, 101, 101, 122, 101, 114>>,
                  icon |-> "snowflake", color |-> "blue", order |-> 1])
  @@ (pantry :> [id |-> pantry, name |-> <<80, 97, 110, 116, 114, 121>>,
                 icon |-> "warehouse", color |-> "amber", order |-> 2])

\* the number of the rows less one, in place of the largest order
getMaxOrder_Count(ars) ==
  IF DOMAIN ars = {} THEN NULL ELSE Cardinality(DOMAIN ars) - 1

\* SELECT MAX("order"): NULL on an empty table
getMaxOrder(ars) ==
  IF DOMAIN ars = {} THEN NULL
  ELSE CHOOSE m \in {ars[a].order : a \in DOMAIN ars} :
         \A a \in DOMAIN ars : ars[a].order <= m

\* SELECT ... ORDER BY "order" ASC: every listing the statement may return,
\* rows of equal order in any sequence
RECURSIVE listingsOf(_, _)
listingsOf(ars, ids) ==
  IF ids = {} THEN { <<>> }
  ELSE UNION { { <<a>> \o rest : rest \in listingsOf(ars, ids \ {a}) } :
               a \in { x \in ids : \A y \in ids : ars[x].order <= ars[y].order } }

getAll(ars) == listingsOf(ars, DOMAIN ars)

\* an update that counts the positions from 1
updateOrder_FromOne(ars, id, order) ==
  [a \in DOMAIN ars |-> IF a = id THEN [ars[a] EXCEPT !.order = order + 1] ELSE ars[a]]

\* UPDATE storage_areas SET "order" = @order WHERE id = @id
updateOrder(ars, id, order) ==
  [a \in DOMAIN ars |-> IF a = id THEN [ars[a] EXCEPT !.order = order] ELSE ars[a]]

\* areaIds.forEach((id, index) => updateOrder.run({ id, order: index })),
\* from position index + 1 of ids on
RECURSIVE reorderFrom(_, _, _)
reorderFrom(ars, ids, index) ==
  IF index >= Len(ids) THEN ars
  ELSE reorderFrom(updateOrder(ars, ids[index + 1], index), ids, index + 1)

\* a reorder that writes no order
reorderAreas_Skipped(ars, ids) == ars

reorderAreas(ars, ids) == reorderFrom(ars, ids, 0)

deleteAreaRow(ars, id) == [a \in DOMAIN ars \ {id} |-> ars[a]]

\* name, icon, color TEXT NOT NULL; "order" INTEGER NOT NULL
AreaNotNullOk(row) ==
  row.name # NoName /\ row.icon # NoTag /\ row.color # NoTag /\ row.order # NULL

----------------------------------------------------------------------------
(* Storage-areas router *)

\* bodies sent to POST /api/storage-areas: a full one with the name " B", and
\* the ones that lack the icon, lack the color, or have a name of " "
CreateAreaInputs ==
  { [name |-> <<SP, 66>>, icon |-> "box", color |-> "violet"],
    [name |-> <<SP, 66>>, icon |-> NoTag, color |-> "violet"],
    [name |-> <<SP, 66>>, icon |-> "box", color |-> NoTag],
    [name |-> <<SP>>, icon |-> "box", color |-> "violet"] }
\* bodies sent to PUT /api/storage-areas/:id: the empty one, and the ones with
\* order 5 alone
NoFields == [name |-> NoName, icon |-> NoTag, color |-> NoTag, order |-> NULL]
UpdateAreaInputs ==
  { NoFields,
    [NoFields EXCEPT !.order = 5] }
\* area ids a request can name: the seeded ones, the generated ones, and one
\* that no area has
AreaIds == { fridge, freezer, pantry, 100 } \cup 1..MaxClock
\* area ids sent to PUT /api/storage-areas/:id
UpdateAreaIds == { fridge, 100 }

\* a sequence without its element at position i
Without(s, i) == SubSeq(s, 1, i - 1) \o SubSeq(s, i + 1, Len(s))
\* a sequence with its element at position i moved to position j
Moved(s, i, j) ==
  LET rest == Without(s, i)
  IN SubSeq(rest, 1, j - 1) \o <<s[i]>> \o SubSeq(rest, j, Len(rest))

\* id arrays sent to the reorder endpoint: the current listing with one area
\* dragged to another place, and four arrays that are no arrangement of all the
\* areas: the empty one, one of an id that no area has, one of a single id, and
\* one that repeats an id
IdArrays ==
  { Moved(listing, i, j) : listing \in getAll(areas),
                           i \in 1..Cardinality(DOMAIN areas),
                           j \in 1..Cardinality(DOMAIN areas) }
  \cup { <<>>, <<100>>, <<freezer>>, <<fridge, fridge>> }

\* POST /api/storage-areas
CreateArea(name, icon, color) ==
  IF IsBlank(Trim(name))
  THEN /\ last' = Reply("createArea", 400, <<>>)
       /\ UNCHANGED <<areas, items, clock, tz, disliked, store, card, pc>>
  ELSE LET maxOrder == getMaxOrder(areas)
           order == (IF maxOrder = NULL THEN -1 ELSE maxOrder) + 1
           newArea == [id |-> clock, name |-> Trim(name), icon |-> icon,
                       color |-> color, order |-> order]
       IN
       IF AreaNotNullOk(newArea)
       THEN /\ clock <= MaxClock
            /\ Cardinality(DOMAIN areas) < MaxAreas
            /\ clock' = clock + 1
            /\ areas' = (newArea.id :> newArea) @@ areas
            /\ last' = Reply("createArea", 201, <<newArea>>)
            /\ UNCHANGED <<items, tz, disliked, store, card, pc>>
       ELSE /\ last' = Reply("createArea", 500, <<>>)
            /\ UNCHANGED <<areas, items, clock, tz, disliked, store, card, pc>>

\* the handler with an omitted order taken as 0
UpdateArea_OrderZero(id, name, icon, color, order) ==
  IF id \notin DOMAIN areas
  THEN /\ last' = Reply("updateArea", 404, <<>>)
       /\ UNCHANGED <<areas, items, clock, tz, disliked, store, card, pc>>
  ELSE LET existing == areas[id]
           updated == [id |-> id,
                       name |-> IF IsBlank(Trim(name)) THEN existing.name ELSE Trim(name),
                       icon |-> IF icon = NoTag THEN existing.icon ELSE icon,
                       color |-> IF color = NoTag THEN existing.color ELSE color,
                       order |-> IF order = NULL THEN 0 ELSE order]
       IN
       /\ areas' = [areas EXCEPT ![id] = updated]
       /\ last' = Reply("updateArea", 200, <<updated>>)
       /\ UNCHANGED <<items, clock, tz, disliked, store, card, pc>>

\* PUT /api/storage-areas/:id
UpdateArea(id, name, icon, color, order) ==
  IF id \notin DOMAIN areas
  THEN /\ last' = Reply("updateArea", 404, <<>>)
       /\ UNCHANGED <<areas, items, clock, tz, disliked, store, card, pc>>
  ELSE LET existing == areas[id]
           updated == [id |-> id,
                       name |-> IF IsBlank(Trim(name)) THEN existing.name ELSE Trim(name),
                       icon |-> IF icon = NoTag THEN existing.icon ELSE icon,
                       color |-> IF color = NoTag THEN existing.color ELSE color,
                       order |-> IF order = NULL THEN existing.order ELSE order]
       IN
       /\ areas' = [areas EXCEPT ![id] = updated]
       /\ last' = Reply("updateArea", 200, <<updated>>)
       /\ UNCHANGED <<items, clock, tz, disliked, store, card, pc>>

\* the handler without its lookup of the area
DeleteArea_NoLookup(id) ==
  /\ items' = deleteByStorageArea(items, id)
  /\ \E ids \in getAll(deleteAreaRow(areas, id)) :
       areas' = IF Len(ids) > 0 THEN reorderAreas(deleteAreaRow(areas, id), ids)
                ELSE deleteAreaRow(areas, id)
  /\ last' = Reply("deleteArea", 204, <<>>)
  /\ UNCHANGED <<clock, tz, disliked, store, card, pc>>

\* DELETE /api/storage-areas/:id
DeleteArea(id) ==
  IF id \notin DOMAIN areas
  THEN /\ last' = Reply("deleteArea", 404, <<>>)
       /\ UNCHANGED <<areas, items, clock, tz, disliked, store, card, pc>>
  ELSE /\ items' = deleteByStorageArea(items, id)
       /\ \E ids \in getAll(deleteAreaRow(areas, id)) :
            areas' = IF Len(ids) > 0 THEN reorderAreas(deleteAreaRow(areas, id), ids)
                     ELSE deleteAreaRow(areas, id)
       /\ last' = Reply("deleteArea", 204, <<>>)
       /\ UNCHANGED <<clock, tz, disliked, store, card, pc>>

\* PUT /api/storage-areas/reorder/batch
ReorderAreas(ids) ==
  /\ areas' = reorderAreas(areas, ids)
  /\ \E rows \in getAll(areas') :
       last' = Reply("reorderAreas", 200, [i \in DOMAIN rows |-> areas'[rows[i]]])
  /\ UNCHANGED <<items, clock, tz, disliked, store, card, pc>>

----------------------------------------------------------------------------
(* Specifications *)


NoItems == [i \in {} |-> NULL]

\* the error field of the client store when no request has failed
NoError == "null"
\* no store function is waiting for a reply
NoCall == [fn |-> "none", api |-> "none", id |-> NULL, arg |-> <<>>]

\* the client store once loadData has read the areas and the items of an empty
\* database file, with no store function running
Loaded ==
  [storageAreas |-> <<DEFAULT_STORAGE_AREAS[fridge], DEFAULT_STORAGE_AREAS[freezer],
                      DEFAULT_STORAGE_AREAS[pantry]>>,
   items |-> <<>>, error |-> NoError, call |-> NoCall]

\* a request of the recipe card: the handler that sent it, the function of
\* dislikedRecipesApi it called, the isLiked its handler was rendered with, how
\* far it has come, and the isDisliked of a reply to check
Request(fn, api, isLiked) ==
  [fn |-> fn, api |-> api, isLiked |-> isLiked, state |-> "sent", result |-> FALSE]

\* a RecipeCard once its effect has run on an empty localStorage: nothing saved,
\* isLiked and isDisliked false, and the check of the disliked status in flight
Mounted ==
  [saved |-> <<>>, isLiked |-> FALSE, isDisliked |-> FALSE,
   flight |-> <<Request("useEffect", "check", FALSE)>>]

\* db.ts on an empty database file: the three default areas, no items
Init ==
  /\ areas = DEFAULT_STORAGE_AREAS
  /\ items = NoItems
  /\ clock = 1
  /\ tz = 0
  /\ disliked = {}
  /\ store = Loaded
  /\ card = Mounted
  /\ last = Reply("init", 0, <<>>)
  /\ pc = Idle

ItemRequests ==
  \/ \E body \in CreateInputs :
       CreateOrMergeItem(body.name, body.quantity, body.storageAreaId, body.expiryDate)
  \/ \E id \in ItemIdInputs, quantity \in QtyInputs : AdjustQuantity(id, quantity)
  \/ \E id \in ItemIdInputs, quantityToOpen \in QtyInputs : OpenItem(id, quantityToOpen)
  \/ \E id \in ItemIdInputs : DeleteItem(id)

AreaRequests ==
  \/ \E body \in CreateAreaInputs : CreateArea(body.name, body.icon, body.color)
  \/ \E id \in UpdateAreaIds, body \in UpdateAreaInputs :
       UpdateArea(id, body.name, body.icon, body.color, body.order)
  \/ \E id \in AreaIds : DeleteArea(id)
  \/ \E ids \in IdArrays : ReorderAreas(ids)

\* every request of both routers
Next == ItemRequests \/ AreaRequests
Spec == Init /\ [][Next]_vars

\* the item lifecycle, with the cascading delete of an area
NextItems == ItemRequests \/ \E id \in { fridge, 100 } : DeleteArea(id)
SpecItems == Init /\ [][NextItems]_vars

\* merging: the bodies of POST /api/items that have a name and a quantity, with
\* items set to one, opened one at a time (a split where more are held) and
\* deleted, and areas deleted
MergeCreateInputs ==
  { body \in CreateInputs : body.quantity >= 1 /\ body.name # <<SP>> }
NextMerge ==
  \/ \E body \in MergeCreateInputs :
       CreateOrMergeItem(body.name, body.quantity, body.storageAreaId, body.expiryDate)
  \/ \E id \in ItemIdInputs : AdjustQuantity(id, 1)
  \/ \E id \in ItemIdInputs : OpenItem(id, 1)
  \/ \E id \in ItemIdInputs : DeleteItem(id)
  \/ \E id \in { fridge, 100 } : DeleteArea(id)
SpecMerge == Init /\ [][NextMerge]_vars

\* opening and adjusting: the bodies of POST /api/items that name "M" in the
\* fridge, and every quantity sent to the quantity and open endpoints
OpenCreateInputs ==
  { body \in CreateInputs : body.name = <<77>> /\ body.storageAreaId = fridge }
NextOpen ==
  \/ \E body \in OpenCreateInputs :
       CreateOrMergeItem(body.name, body.quantity, body.storageAreaId, body.expiryDate)
  \/ \E id \in ItemIdInputs, quantity \in QtyInputs : AdjustQuantity(id, quantity)
  \/ \E id \in ItemIdInputs, quantityToOpen \in QtyInputs : OpenItem(id, quantityToOpen)
  \/ \E id \in ItemIdInputs : DeleteItem(id)
SpecOpen == Init /\ [][NextOpen]_vars

\* the storage area manager, with items added to the seeded areas
NextAreas ==
  \/ AreaRequests
  \/ \E storageAreaId \in { fridge, freezer } :
       CreateOrMergeItem(<<77>>, 2, storageAreaId, NULL)
SpecAreas == Init /\ [][NextAreas]_vars

\* the areas are dragged to other places, while the area "B" is added, an area
\* is deleted and the fridge is given the order 5
NextReorder ==
  \/ \E ids \in IdArrays : ReorderAreas(ids)
  \/ CreateArea(<<SP, 66>>, "box", "violet")
  \/ UpdateArea(fridge, NoName, NoTag, NoTag, 5)
  \/ \E id \in { fridge, pantry } : DeleteArea(id)
SpecReorder == Init /\ [][NextReorder]_vars

\* bodies sent to PUT /api/storage-areas/:id with each field given or omitted:
\* the name " B" or " ", the icon "box", the color "violet", the order 1
UpdateFieldInputs ==
  [name : { NoName, <<SP>>, <<SP, 66>> }, icon : { NoTag, "box" },
   color : { NoTag, "violet" }, order : { NULL, 1 }]
\* the freezer, the pantry and an area that does not exist are updated, while
\* "M" is added to the freezer
NextUpdate ==
  \/ \E id \in { freezer, pantry, 100 }, body \in UpdateFieldInputs :
       UpdateArea(id, body.name, body.icon, body.color, body.order)
  \/ CreateOrMergeItem(<<77>>, 2, freezer, NULL)
SpecUpdate == Init /\ [][NextUpdate]_vars

\* rejected requests: "M" in the fridge, the bodies of POST /api/items and POST
\* /api/storage-areas that miss a field, and ids that no record has
ErrorCreateInputs ==
  { body \in CreateInputs :
      /\ body.name \in { <<77>>, <<SP>> }
      /\ body.storageAreaId # freezer
      /\ body.expiryDate = NULL }
NextErrors ==
  \/ \E body \in ErrorCreateInputs :
       CreateOrMergeItem(body.name, body.quantity, body.storageAreaId, body.expiryDate)
  \/ \E id \in ItemIdInputs, quantity \in { 0, 2 } : AdjustQuantity(id, quantity)
  \/ \E id \in ItemIdInputs : OpenItem(id, 1)
  \/ \E id \in ItemIdInputs : DeleteItem(id)
  \/ \E body \in CreateAreaInputs : CreateArea(body.name, body.icon, body.color)
  \/ \E id \in UpdateAreaIds, body \in UpdateAreaInputs :
       UpdateArea(id, body.name, body.icon, body.color, body.order)
  \/ \E id \in { fridge, 100 } : DeleteArea(id)
SpecErrors == Init /\ [][NextErrors]_vars

\* opening items that expire: the server runs in UTC (the image sets no TZ), or
\* in a zone west or east of it when the process is given one; "M" is added to
\* the fridge with an expiry in the past, 1, 3 or 10 days out, or with none
Zones == { -5, 0, 2 }
ExpiryInputs == { NULL, Today - 2, Today + 1, Today + 3, Today + 10 }
InitExpiry ==
  /\ areas = DEFAULT_STORAGE_AREAS
  /\ items = NoItems
  /\ clock = 1
  /\ tz \in Zones
  /\ disliked = {}
  /\ store = Loaded
  /\ card = Mounted
  /\ last = Reply("init", 0, <<>>)
  /\ pc = Idle
NextExpiry ==
  \/ \E expiryDate \in ExpiryInputs : CreateOrMergeItem(<<77>>, 2, fridge, expiryDate)
  \/ \E id \in ItemIdInputs, quantityToOpen \in { 1, 2 } : OpenItem(id, quantityToOpen)
  \/ \E id \in ItemIdInputs : DeleteItem(id)
SpecExpiry == InitExpiry /\ [][NextExpiry]_vars

----------------------------------------------------------------------------
(* The handlers that run more than one statement, statement by statement.  No  *)
(* handler opens a transaction around its statements: each statement is        *)
(* committed when it returns, and only reorderAreas runs in a transaction.     *)

\* the boolean true sent where a number is expected
JsTrue == -3
\* ToNumber, as the operators >= and - apply it
ToNumber(x) == IF x = JsTrue THEN 1 ELSE x
\* better-sqlite3 binds numbers, strings, bigints, buffers and null
Bindable(x) == x # JsTrue

\* DELETE /api/storage-areas/:id up to itemQueries.deleteByStorageArea.run
DeleteAreaItems(id) ==
  /\ pc = Idle
  /\ IF id \notin DOMAIN areas
     THEN /\ last' = Reply("deleteArea", 404, <<>>)
          /\ UNCHANGED <<areas, items, clock, tz, disliked, store, card, pc>>
     ELSE /\ items' = deleteByStorageArea(items, id)
          /\ pc' = Running("deleteArea", 1, id, NULL)
          /\ UNCHANGED <<areas, clock, tz, disliked, store, card, last>>

\* storageAreaQueries.delete.run
DeleteAreaRow ==
  /\ pc.op = "deleteArea" /\ pc.at = 1
  /\ areas' = deleteAreaRow(areas, pc.id)
  /\ pc' = Running("deleteArea", 2, pc.id, NULL)
  /\ UNCHANGED <<items, clock, tz, disliked, store, card, last>>

\* getAll, reorderAreas and the reply
DeleteAreaReorder ==
  /\ pc.op = "deleteArea" /\ pc.at = 2
  /\ \E ids \in getAll(areas) :
       areas' = IF Len(ids) > 0 THEN reorderAreas(areas, ids) ELSE areas
  /\ last' = Reply("deleteArea", 204, <<>>)
  /\ pc' = Idle
  /\ UNCHANGED <<items, clock, tz, disliked, store, card>>

\* PUT /api/items/:id/open up to its first write: the update of a full open,
\* after which it replies, or itemQueries.updateQuantity.run of a split
OpenItemUpdate(id, quantityToOpen) ==
  /\ pc = Idle
  /\ IF id \notin DOMAIN items
     THEN /\ last' = Reply("openItem", 404, <<>>)
          /\ UNCHANGED <<areas, items, clock, tz, disliked, store, card, pc>>
     ELSE LET item == items[id]
              newExpiryDate == newExpiryDateOf(item.expiryDate, tz)
          IN
          IF ToNumber(quantityToOpen) >= item.quantity
          THEN /\ items' = update(items, id, item.name, item.quantity, TRUE, clock,
                                  OrNull(newExpiryDate))
               /\ last' = Reply("openItem", 200, <<items'[id]>>)
               /\ UNCHANGED <<areas, clock, tz, disliked, store, card, pc>>
          ELSE /\ items' = updateQuantity(items, id,
                                          item.quantity - ToNumber(quantityToOpen))
               /\ pc' = Running("openItem", 1, id, quantityToOpen)
               /\ UNCHANGED <<areas, clock, tz, disliked, store, card, last>>

\* itemQueries.insert.run of the split and the reply; a value that cannot be
\* bound makes run throw, and the catch block replies 500
OpenItemInsert ==
  /\ pc.op = "openItem" /\ pc.at = 1
  /\ pc' = Idle
  /\ IF Bindable(pc.arg)
     THEN LET item == items[pc.id]
              openedItem == openedItemOf(clock, item, pc.arg, clock,
                                         newExpiryDateOf(item.expiryDate, tz))
          IN /\ clock <= MaxClock
             /\ clock' = clock + 1
             /\ items' = insert(items, openedItem)
             /\ last' = Reply("openItem", 200, <<items'[pc.id], openedItem>>)
             /\ UNCHANGED <<areas, tz, disliked, store, card>>
     ELSE /\ last' = Reply("openItem", 500, <<>>)
          /\ UNCHANGED <<areas, items, clock, tz, disliked, store, card>>

\* the process stops between two statements and is started again: the database
\* keeps what was committed, and no reply is sent
Crash ==
  /\ pc # Idle
  /\ pc' = Idle
  /\ last' = Reply("restart", 0, <<>>)
  /\ UNCHANGED <<areas, items, clock, tz, disliked, store, card>>

\* id arrays that arrange all the areas: the current listing with one area
\* dragged to another place
Arrangements ==
  { Moved(listing, i, j) : listing \in getAll(areas),
                           i \in 1..Cardinality(DOMAIN areas),
                           j \in 1..Cardinality(DOMAIN areas) }

\* quantityToOpen values sent to the open endpoint, numbers and true
OpenInputs == QtyInputs \cup { JsTrue }

\* requests that keep the orders packed, served statement by statement
NextSteps ==
  \/ /\ pc = Idle
     /\ \E storageAreaId \in { fridge, freezer } :
          CreateOrMergeItem(<<77>>, 2, storageAreaId, NULL)
  \/ /\ pc = Idle
     /\ \E ids \in Arrangements : ReorderAreas(ids)
  \/ \E id \in { fridge, pantry, 100 } : DeleteAreaItems(id)
  \/ DeleteAreaRow
  \/ DeleteAreaReorder
  \/ \E id \in ItemIdInputs, quantityToOpen \in OpenInputs :
       OpenItemUpdate(id, quantityToOpen)
  \/ OpenItemInsert
  \/ Crash
SpecSteps == Init /\ [][NextSteps]_vars

----------------------------------------------------------------------------
(* Smart scan: POST /api/scan/receipt/smart and filterScannedItems *)

\* longest list of scanned lines, and longest array in a reply of the model
MaxRaw == 2

\* an element of a parsed JSON array that is not a string
NotAString == <<NULL, NULL>>

\* the sequences over a set of elements, up to a length
RECURSIVE SeqsUpTo(_, _)
SeqsUpTo(elems, n) ==
  IF n = 0 THEN { <<>> }
  ELSE SeqsUpTo(elems, n - 1)
       \cup { Append(q, x) : q \in { r \in SeqsUpTo(elems, n - 1) : Len(r) = n - 1 },
                             x \in elems }

\* what scanReceiptItems does: it throws, or returns the lines "M", "T" it read
ScanOutcomes ==
  { [ok |-> FALSE, rawItems |-> <<>>] }
  \cup { [ok |-> TRUE, rawItems |-> r] : r \in SeqsUpTo({ <<77>>, <<84>> }, MaxRaw) }

\* what the AI stage does: no API key is set; the call throws (network error,
\* empty content); the reply holds no [...]; the reply holds a [...] that is
\* no JSON; or the reply holds an array, of the strings "M" and " " and of
\* elements that are no strings
AiOutcomes ==
  { [configured |-> FALSE, kind |-> "none", items |-> <<>>] }
  \cup { [configured |-> TRUE, kind |-> k, items |-> <<>>] :
           k \in { "throws", "noArray", "badJson" } }
  \cup { [configured |-> TRUE, kind |-> "array", items |-> a] :
           a \in SeqsUpTo({ <<77>>, <<SP>>, NotAString }, MaxRaw) }

\* what a call returns: a value, or nothing when it throws
Returned(value) == [threw |-> FALSE, value |-> value]
Thrown == [threw |-> TRUE, value |-> <<>>]

\* typeof item === 'string' && item.trim().length > 0
IsFoodName(item) == item # NotAString /\ Len(Trim(item)) > 0

\* filterScannedItems: generateText throws without a client or when the call
\* fails; a reply that cannot be parsed is caught and gives []
filterScannedItems(ai, scannedItems) ==
  IF scannedItems = <<>> THEN Returned(<<>>)
  ELSE IF ~ai.configured \/ ai.kind = "throws" THEN Thrown
  ELSE IF ai.kind = "array" THEN Returned(SelectSeq(ai.items, IsFoodName))
  ELSE Returned(<<>>)

\* client !== null
isMistralAvailable(ai) == ai.configured

\* POST /api/scan/receipt/smart; the reply holds items and raw, and the model
\* notes with it whether filterScannedItems was called
SmartScan(image, scan, ai) ==
  /\ UNCHANGED <<areas, items, clock, tz, disliked, store, card, pc>>
  /\ IF ~image
     THEN last' = Reply("smartScan", 400, <<>>)
     ELSE IF ~scan.ok
     THEN last' = Reply("smartScan", 500, <<>>)
     ELSE LET rawItems == scan.rawItems IN
          IF Len(rawItems) = 0
          THEN last' = Reply("smartScan", 200,
                             [items |-> <<>>, raw |-> <<>>, called |-> FALSE])
          ELSE LET result == filterScannedItems(ai, rawItems)
                   filteredItems == IF isMistralAvailable(ai) /\ ~result.threw
                                    THEN result.value ELSE rawItems
               IN last' = Reply("smartScan", 200,
                                [items |-> filteredItems, raw |-> rawItems,
                                 called |-> isMistralAvailable(ai)])

\* receipts are scanned, and "M" is added to the fridge
NextScan ==
  \/ \E image \in BOOLEAN, scan \in ScanOutcomes, ai \in AiOutcomes :
       SmartScan(image, scan, ai)
  \/ \E quantity \in { 1, 2 } : CreateOrMergeItem(<<77>>, quantity, fridge, NULL)
  \/ \E id \in ItemIdInputs : DeleteItem(id)
SpecScan == Init /\ [][NextScan]_vars

----------------------------------------------------------------------------
(* Disliked recipes and POST /api/ai/suggest-from-recipes *)

\* rows kept in the disliked_recipes table
MaxDisliked == 2

\* String.prototype.toLowerCase, on the ASCII names of the model
toLowerCase(s) == [i \in 1..Len(s) |-> LowerChar(s[i])]

\* String.prototype.includes: d occurs in s
includes(s, d) ==
  \E k \in 0..(Len(s) - Len(d)) : SubSeq(s, k + 1, k + Len(d)) = d

\* dislikedRecipeQueries.getByName: the rows of a name, whatever its case; the
\* table is kept as the set of its names, no request reads an id or a createdAt
getByName(rows, name) == { d \in rows : toLowerCase(d) = toLowerCase(name) }

\* getDislikedRecipeNames: the names of the table, in lower case
getDislikedRecipeNames(rows) == { toLowerCase(d) : d \in rows }

\* names sent to the disliked-recipes router: "M", "m", "T", " T", "" and none
DislikedInputs == { <<77>>, <<109>>, <<84>>, <<SP, 84>>, <<>>, NoName }

\* POST /api/disliked-recipes; it is served between requests and while a
\* suggestion waits for the reply of the AI
AddDisliked(name) ==
  /\ pc.op \in { "idle", "suggestFromRecipes" }
  /\ UNCHANGED <<areas, items, clock, tz, store, card, pc>>
  /\ IF IsBlank(Trim(name))
     THEN /\ last' = Reply("addDisliked", 400, <<>>)
          /\ UNCHANGED disliked
     ELSE LET trimmedName == Trim(name)
              existing == getByName(disliked, trimmedName)
          IN IF existing # {}
             THEN /\ last' = Reply("addDisliked", 200, existing)
                  /\ UNCHANGED disliked
             ELSE /\ Cardinality(disliked) < MaxDisliked
                  /\ disliked' = disliked \cup { trimmedName }
                  /\ last' = Reply("addDisliked", 201, trimmedName)

\* DELETE /api/disliked-recipes/:name
RemoveDisliked(name) ==
  /\ pc.op \in { "idle", "suggestFromRecipes" }
  /\ UNCHANGED <<areas, items, clock, tz, store, card, pc>>
  /\ disliked' = disliked \ getByName(disliked, name)
  /\ last' = Reply("removeDisliked", 204, <<>>)

\* the candidates sent on when names are compared as they are written
filteredRecipesOf_CaseSensitive(recipes, dislikedNames) ==
  SelectSeq(recipes, LAMBDA recipeName : recipeName \notin dislikedNames)

\* recipes.filter(recipeName => !dislikedNames.includes(recipeName.toLowerCase()))
filteredRecipesOf(recipes, dislikedNames) ==
  SelectSeq(recipes, LAMBDA recipeName : toLowerCase(recipeName) \notin dislikedNames)

\* a field of a request body that is not an array
NotAnArray == << <<NULL, NULL, NULL>> >>

\* the recipes field of a request: no array, or an array of the names "M", "m",
\* "T" and of elements that are no strings
RecipeInputs ==
  { NotAnArray } \cup SeqsUpTo({ <<77>>, <<109>>, <<84>>, NotAString }, MaxRaw)
\* the pantryItems field of a request: no array, or an array
PantryInputs == { NotAnArray, <<>> }

\* what the AI does with the prompt: no API key is set; the call throws; the
\* reply holds no [...]; the reply holds a [...] that is no JSON; or the reply
\* holds an array of recipes, named "m" or "TM" or without a name
RecipeReplies ==
  { [configured |-> FALSE, kind |-> "none", items |-> <<>>] }
  \cup { [configured |-> TRUE, kind |-> k, items |-> <<>>] :
           k \in { "throws", "noArray", "badJson" } }
  \cup { [configured |-> TRUE, kind |-> "array", items |-> a] :
           a \in SeqsUpTo({ [name |-> n] :
                              n \in { <<109>>, <<84, 77>>, NotAString } },
                          MaxRaw) }

\* suggestFromRecipes: a reply that cannot be parsed gives [], and so does a
\* recipe without a name when there are disliked names to compare it with
\* (r.name.toLowerCase throws inside the try); the recipes kept are numbered
suggestFromRecipes(ai, recipes, dislikedRecipes) ==
  IF recipes = <<>> THEN Returned(<<>>)
  ELSE IF ~ai.configured \/ ai.kind = "throws" THEN Thrown
  ELSE IF ai.kind # "array" THEN Returned(<<>>)
  ELSE IF /\ dislikedRecipes # {}
          /\ \E i \in DOMAIN ai.items : ai.items[i].name = NotAString
  THEN Returned(<<>>)
  ELSE LET filteredRecipes ==
             SelectSeq(ai.items,
                       LAMBDA r : ~\E d \in dislikedRecipes :
                                     includes(toLowerCase(r.name), toLowerCase(d)))
       IN Returned([i \in 1..Len(filteredRecipes) |->
                      [name |-> filteredRecipes[i].name, id |-> i - 1]])

\* POST /api/ai/suggest-from-recipes up to its await: the candidates that are
\* not disliked are sent to the AI with the disliked names read from the table;
\* the model notes with them how many candidates the request held
SuggestFromRecipes(recipes, pantryItems) ==
  /\ pc = Idle
  /\ UNCHANGED <<areas, items, clock, tz, disliked, store, card>>
  /\ IF recipes = NotAnArray \/ recipes = <<>> \/ pantryItems = NotAnArray
     THEN /\ last' = Reply("suggestFromRecipes", 400, <<>>)
          /\ UNCHANGED pc
     ELSE IF \E i \in DOMAIN recipes : recipes[i] = NotAString
     THEN /\ last' = Reply("suggestFromRecipes", 500, <<>>)
          /\ UNCHANGED pc
     ELSE LET dislikedNames == getDislikedRecipeNames(disliked)
              filteredRecipes == filteredRecipesOf(recipes, dislikedNames)
          IN IF Len(filteredRecipes) = 0
             THEN /\ last' = Reply("suggestFromRecipes", 200,
                                   [recipes |-> <<>>, asked |-> Len(recipes),
                                    sent |-> 0, parsed |-> 0])
                  /\ UNCHANGED pc
             ELSE /\ pc' = Running("suggestFromRecipes", 1, NULL,
                                   [recipes |-> filteredRecipes,
                                    dislikedRecipes |-> dislikedNames,
                                    asked |-> Len(recipes)])
                  /\ UNCHANGED last

\* the rest of the handler, when the AI has replied or the call has failed; the
\* model notes with the recipes how many were asked, sent and found in the reply
SuggestFromRecipesReply(ai) ==
  /\ pc.op = "suggestFromRecipes"
  /\ UNCHANGED <<areas, items, clock, tz, disliked, store, card>>
  /\ pc' = Idle
  /\ LET result == suggestFromRecipes(ai, pc.arg.recipes, pc.arg.dislikedRecipes)
     IN last' = IF result.threw
                THEN Reply("suggestFromRecipes", 500, <<>>)
                ELSE Reply("suggestFromRecipes", 200,
                           [recipes |-> result.value, asked |-> pc.arg.asked,
                            sent |-> Len(pc.arg.recipes), parsed |-> Len(ai.items)])

\* recipes are disliked and liked again while suggestions are asked for
NextSuggest ==
  \/ \E name \in DislikedInputs : AddDisliked(name)
  \/ \E name \in DislikedInputs \ { NoName } : RemoveDisliked(name)
  \/ \E recipes \in RecipeInputs, pantryItems \in PantryInputs :
       SuggestFromRecipes(recipes, pantryItems)
  \/ \E ai \in RecipeReplies : SuggestFromRecipesReply(ai)
SpecSuggest == Init /\ [][NextSuggest]_vars

----------------------------------------------------------------------------
(* The client store: usePantryStore *)

\* response.ok of fetchJson
Ok(reply) == reply.status \in { 200, 201, 204 }

\* a store function calls a function of the API and awaits its reply; the
\* request is in flight, and no reply has come
Invoke(fn, api, id, arg) ==
  /\ pc = Idle
  /\ store.call.fn = "none"
  /\ store' = [store EXCEPT !.call = [fn |-> fn, api |-> api, id |-> id, arg |-> arg]]
  /\ last' = Reply("fetch", 0, <<>>)
  /\ UNCHANGED <<areas, items, clock, tz, disliked, card, pc>>

\* addStorageArea returns at once when the name is blank
addStorageArea(name, icon, color) ==
  /\ ~IsBlank(Trim(name))
  /\ Invoke("addStorageArea", "storageAreasApi.create", NULL,
            [name |-> Trim(name), icon |-> icon, color |-> color])

updateStorageArea(id, updates) ==
  Invoke("updateStorageArea", "storageAreasApi.update", id, updates)

deleteStorageArea(id) ==
  Invoke("deleteStorageArea", "storageAreasApi.delete", id, <<>>)

reorderStorageAreas(ids) ==
  Invoke("reorderStorageAreas", "storageAreasApi.reorder", NULL, ids)

\* addItem returns at once when the name is blank or the quantity is below 1
addItem(name, quantity, storageAreaId, expiryDate) ==
  /\ ~(IsBlank(Trim(name)) \/ quantity < 1)
  /\ Invoke("addItem", "itemsApi.create", NULL,
            [name |-> Trim(name), quantity |-> quantity,
             storageAreaId |-> storageAreaId, expiryDate |-> expiryDate])

\* a store function that sends the quantity update whatever the quantity is
quantityApiOf_Update(quantity) == "itemsApi.updateQuantity"

\* if (quantity < 1) itemsApi.delete(id) else itemsApi.updateQuantity(id, quantity)
quantityApiOf(quantity) ==
  IF quantity < 1 THEN "itemsApi.delete" ELSE "itemsApi.updateQuantity"

updateItemQuantity(id, quantity) ==
  Invoke("updateItemQuantity", quantityApiOf(quantity), id, quantity)

removeItem(id) == Invoke("removeItem", "itemsApi.delete", id, <<>>)

openItem(id, quantityToOpen) ==
  Invoke("openItem", "itemsApi.open", id, quantityToOpen)

\* the server takes up the request in flight and replies
ServeFetch ==
  /\ last.op = "fetch"
  /\ LET c == store.call IN
     CASE c.api = "storageAreasApi.create" ->
            CreateArea(c.arg.name, c.arg.icon, c.arg.color)
       [] c.api = "storageAreasApi.update" ->
            UpdateArea(c.id, c.arg.name, c.arg.icon, c.arg.color, c.arg.order)
       [] c.api = "storageAreasApi.delete" -> DeleteArea(c.id)
       [] c.api = "storageAreasApi.reorder" -> ReorderAreas(c.arg)
       [] c.api = "itemsApi.create" ->
            CreateOrMergeItem(c.arg.name, c.arg.quantity, c.arg.storageAreaId,
                              c.arg.expiryDate)
       [] c.api = "itemsApi.updateQuantity" -> AdjustQuantity(c.id, c.arg)
       [] c.api = "itemsApi.open" -> OpenItem(c.id, c.arg)
       [] c.api = "itemsApi.delete" -> DeleteItem(c.id)
       [] OTHER -> FALSE

\* the request in flight does not reach the server: fetch rejects
FetchFails ==
  /\ last.op = "fetch"
  /\ last' = Reply("fetchFailed", 0, <<>>)
  /\ UNCHANGED <<areas, items, clock, tz, disliked, store, card, pc>>

\* setStorageAreas((prev) => [...prev, newArea])
addStorageAreaDone(st, newArea) ==
  [st EXCEPT !.storageAreas = Append(st.storageAreas, newArea)]

\* prev.map((area) => (area.id === id ? updated : area))
updateStorageAreaDone(st, id, updated) ==
  [st EXCEPT !.storageAreas =
     [i \in DOMAIN st.storageAreas |->
        IF st.storageAreas[i].id = id THEN updated ELSE st.storageAreas[i]]]

\* a store that drops the area and keeps its items
deleteStorageAreaDone_AreaOnly(st, id) ==
  [st EXCEPT !.storageAreas = SelectSeq(st.storageAreas, LAMBDA area : area.id # id)]

\* prev.filter((area) => area.id !== id), prev.filter((item) => item.storageAreaId !== id)
deleteStorageAreaDone(st, id) ==
  [st EXCEPT !.storageAreas = SelectSeq(st.storageAreas, LAMBDA area : area.id # id),
             !.items = SelectSeq(st.items, LAMBDA item : item.storageAreaId # id)]

\* setStorageAreas(reordered)
reorderStorageAreasDone(st, reordered) == [st EXCEPT !.storageAreas = reordered]

\* the record at findIndex((item) => item.id === result.id) is replaced, or the
\* result is appended
addItemDone(st, result) ==
  LET found == { i \in DOMAIN st.items : st.items[i].id = result.id }
  IN IF found # {}
     THEN LET existingIndex == CHOOSE i \in found : \A j \in found : i <= j
          IN [st EXCEPT !.items[existingIndex] = result]
     ELSE [st EXCEPT !.items = Append(st.items, result)]

\* prev.filter((item) => item.id !== id)
removeItemDone(st, id) ==
  [st EXCEPT !.items = SelectSeq(st.items, LAMBDA item : item.id # id)]

\* if (updated) prev.map((item) => (item.id === id ? updated : item)); a reply
\* of 204 gives no record
updateItemQuantityDone(st, id, body) ==
  IF body = <<>> THEN st
  ELSE [st EXCEPT !.items =
          [i \in DOMAIN st.items |-> IF st.items[i].id = id THEN body[1] ELSE st.items[i]]]

\* [...prev.filter((item) => item.id !== id), ...result.items]
openItemDone(st, id, resultItems) ==
  [st EXCEPT !.items = SelectSeq(st.items, LAMBDA item : item.id # id) \o resultItems]

\* the rest of a store function, once the reply has come or the request has
\* failed: the state is set from the reply, or the error is set
settled(st, reply) ==
  LET c == st.call
      done == [st EXCEPT !.call = NoCall]
  IN IF ~Ok(reply) THEN [done EXCEPT !.error = "Request failed"]
     ELSE CASE c.fn = "addStorageArea" -> addStorageAreaDone(done, reply.body[1])
            [] c.fn = "updateStorageArea" -> updateStorageAreaDone(done, c.id, reply.body[1])
            [] c.fn = "deleteStorageArea" -> deleteStorageAreaDone(done, c.id)
            [] c.fn = "reorderStorageAreas" -> reorderStorageAreasDone(done, reply.body)
            [] c.fn = "addItem" -> addItemDone(done, reply.body[1])
            [] c.fn = "updateItemQuantity" ->
                 IF c.api = "itemsApi.delete" THEN removeItemDone(done, c.id)
                 ELSE updateItemQuantityDone(done, c.id, reply.body)
            [] c.fn = "removeItem" -> removeItemDone(done, c.id)
            [] c.fn = "openItem" -> openItemDone(done, c.id, reply.body)

Settle ==
  /\ store.call.fn # "none"
  /\ last.op # "fetch"
  /\ store' = settled(store, last)
  /\ UNCHANGED <<areas, items, clock, tz, disliked, card, last, pc>>

\* the ids of the cached areas, last one first
RECURSIVE Reverse(_)
Reverse(s) == IF s = <<>> THEN <<>> ELSE Reverse(Tail(s)) \o <<Head(s)>>
CachedIds == [i \in DOMAIN store.storageAreas |-> store.storageAreas[i].id]

\* one user works with the store, one function at a time: " M" is added to the
\* fridge or the freezer, quantities are set, items are opened and removed,
\* the area " B" is added, the freezer is renamed, the fridge or an area that
\* does not exist is deleted, and the areas are put in reverse
NextStore ==
  \/ \E quantity \in { 1, 2 }, storageAreaId \in { fridge, freezer } :
       addItem(<<SP, 77>>, quantity, storageAreaId, NULL)
  \/ \E id \in ItemIdInputs, quantity \in QtyInputs : updateItemQuantity(id, quantity)
  \/ \E id \in ItemIdInputs : removeItem(id)
  \/ \E id \in ItemIdInputs, quantityToOpen \in { 1, 2 } : openItem(id, quantityToOpen)
  \/ addStorageArea(<<SP, 66>>, "box", "violet")
  \/ updateStorageArea(freezer, [NoFields EXCEPT !.name = <<66>>])
  \/ \E id \in { fridge, 100 } : deleteStorageArea(id)
  \/ reorderStorageAreas(Reverse(CachedIds))
  \/ ServeFetch
  \/ FetchFails
  \/ Settle
SpecStore == Init /\ [][NextStore]_vars

\* the user adds " M" to the fridge and sets quantities
NextStoreItems ==
  \/ \E quantity \in { 1, 2 } : addItem(<<SP, 77>>, quantity, fridge, NULL)
  \/ \E id \in ItemIdInputs, quantity \in QtyInputs : updateItemQuantity(id, quantity)
  \/ ServeFetch
  \/ FetchFails
  \/ Settle
SpecStoreItems == Init /\ [][NextStoreItems]_vars

\* the user adds " M" to the fridge and opens items
NextStoreOpen ==
  \/ \E quantity \in { 1, 2 } : addItem(<<SP, 77>>, quantity, fridge, NULL)
  \/ \E id \in ItemIdInputs, quantityToOpen \in { 1, 2 } : openItem(id, quantityToOpen)
  \/ ServeFetch
  \/ FetchFails
  \/ Settle
SpecStoreOpen == Init /\ [][NextStoreOpen]_vars

\* the user adds " M" to the fridge and to the freezer, and deletes the fridge
\* or an area that does not exist
NextStoreAreas ==
  \/ \E storageAreaId \in { fridge, freezer } : addItem(<<SP, 77>>, 1, storageAreaId, NULL)
  \/ \E id \in { fridge, 100 } : deleteStorageArea(id)
  \/ ServeFetch
  \/ FetchFails
  \/ Settle
SpecStoreAreas == Init /\ [][NextStoreAreas]_vars

----------------------------------------------------------------------------
(* The recipe card: RecipeCard and the saved recipes of localStorage *)

\* requests of the card that wait for their reply at one time
MaxFlight == 2

\* recipe.name of the card: "M"
RecipeName == <<77>>

\* saved.some(r => r.name.toLowerCase() === recipeName.toLowerCase()); the saved
\* recipes are kept as the sequence of their names
isRecipeSaved(saved, recipeName) ==
  \E i \in DOMAIN saved : toLowerCase(saved[i]) = toLowerCase(recipeName)

\* saveRecipe: the recipe is pushed unless its name is saved
saveRecipe(saved, recipeName) ==
  IF ~isRecipeSaved(saved, recipeName) THEN Append(saved, recipeName) ELSE saved

\* unsaveRecipe: saved.filter(r => r.name.toLowerCase() !== recipeName.toLowerCase())
unsaveRecipe(saved, recipeName) ==
  SelectSeq(saved, LAMBDA r : toLowerCase(r) # toLowerCase(recipeName))

\* POST /api/disliked-recipes/check
CheckDisliked(name) ==
  /\ pc.op \in { "idle", "suggestFromRecipes" }
  /\ UNCHANGED <<areas, items, clock, tz, disliked, store, card, pc>>
  /\ IF IsBlank(Trim(name))
     THEN last' = Reply("checkDisliked", 400, [isDisliked |-> FALSE])
     ELSE LET existing == getByName(disliked, Trim(name))
          IN last' = Reply("checkDisliked", 200, [isDisliked |-> existing # {}])

\* handleLike: a liked recipe is taken out of the saved ones; any other is saved,
\* and when the card shows it as disliked the removal of the dislike is sent and
\* not awaited
handleLike ==
  /\ UNCHANGED <<areas, items, clock, tz, disliked, store, last, pc>>
  /\ IF card.isLiked
     THEN card' = [card EXCEPT !.saved = unsaveRecipe(card.saved, RecipeName),
                               !.isLiked = FALSE]
     ELSE IF card.isDisliked
     THEN /\ Len(card.flight) < MaxFlight
          /\ card' = [card EXCEPT !.saved = saveRecipe(card.saved, RecipeName),
                                  !.isLiked = TRUE,
                                  !.flight = Append(card.flight,
                                               Request("handleLike", "remove", FALSE))]
     ELSE card' = [card EXCEPT !.saved = saveRecipe(card.saved, RecipeName),
                               !.isLiked = TRUE]

\* handleDislike up to its await: the removal is sent when the card shows the
\* recipe as disliked, the addition when it does not
handleDislike ==
  /\ Len(card.flight) < MaxFlight
  /\ card' = [card EXCEPT !.flight =
                Append(card.flight,
                       Request("handleDislike",
                               IF card.isDisliked THEN "remove" ELSE "add",
                               card.isLiked))]
  /\ UNCHANGED <<areas, items, clock, tz, disliked, store, last, pc>>

\* a request of the card reaches the server, which serves one request at a time
Arrive(i) ==
  /\ i \in DOMAIN card.flight
  /\ card.flight[i].state = "sent"
  /\ \A j \in DOMAIN card.flight : card.flight[j].state # "arrived"
  /\ card' = [card EXCEPT !.flight[i].state = "arrived"]
  /\ last' = Reply("arrive", 0, <<>>)
  /\ UNCHANGED <<areas, items, clock, tz, disliked, store, pc>>

\* the disliked-recipes router serves the request that has arrived
ServeCard ==
  /\ last.op = "arrive"
  /\ \E i \in DOMAIN card.flight :
       /\ card.flight[i].state = "arrived"
       /\ CASE card.flight[i].api = "add" -> AddDisliked(RecipeName)
            [] card.flight[i].api = "remove" -> RemoveDisliked(RecipeName)
            [] card.flight[i].api = "check" -> CheckDisliked(RecipeName)
            [] OTHER -> FALSE

\* fetchJson of a request of the card gets the reply of the server
Return(i) ==
  /\ i \in DOMAIN card.flight
  /\ card.flight[i].state = "arrived"
  /\ last.op # "arrive"
  /\ card' = [card EXCEPT
                !.flight[i].state = IF Ok(last) THEN "ok" ELSE "failed",
                !.flight[i].result = IF last.op = "checkDisliked"
                                     THEN last.body.isDisliked ELSE FALSE]
  /\ UNCHANGED <<areas, items, clock, tz, disliked, store, last, pc>>

\* a request of the card does not reach the server: fetch rejects
CardFetchFails(i) ==
  /\ i \in DOMAIN card.flight
  /\ card.flight[i].state = "sent"
  /\ card' = [card EXCEPT !.flight[i].state = "failed"]
  /\ UNCHANGED <<areas, items, clock, tz, disliked, store, last, pc>>

\* s without its element i
RemoveAt(s, i) == SubSeq(s, 1, i - 1) \o SubSeq(s, i + 1, Len(s))

\* the card when the promise of request r has settled: the then or the catch of
\* the effect, of handleLike, or the rest of handleDislike after its await
continued(c, r) ==
  IF r.fn = "useEffect"
  THEN [c EXCEPT !.isDisliked = IF r.state = "ok" THEN r.result ELSE FALSE]
  ELSE IF r.state # "ok" THEN c
  ELSE IF r.api = "remove" THEN [c EXCEPT !.isDisliked = FALSE]
  ELSE IF r.isLiked
  THEN [c EXCEPT !.isDisliked = TRUE,
                 !.saved = unsaveRecipe(c.saved, RecipeName),
                 !.isLiked = FALSE]
  ELSE [c EXCEPT !.isDisliked = TRUE]

\* the continuation of a settled request runs
Continue(i) ==
  /\ i \in DOMAIN card.flight
  /\ card.flight[i].state \in { "ok", "failed" }
  /\ card' = continued([card EXCEPT !.flight = RemoveAt(card.flight, i)],
                       card.flight[i])
  /\ UNCHANGED <<areas, items, clock, tz, disliked, store, last, pc>>

\* one card, its user and the server
NextCard ==
  \/ handleLike
  \/ handleDislike
  \/ \E i \in 1..MaxFlight : Arrive(i)
  \/ ServeCard
  \/ \E i \in 1..MaxFlight : Return(i)
  \/ \E i \in 1..MaxFlight : CardFetchFails(i)
  \/ \E i \in 1..MaxFlight : Continue(i)
SpecCard == Init /\ [][NextCard]_vars

----------------------------------------------------------------------------
(* Properties of the items and the storage areas *)

\* an expiry that is not given: null or the empty string
NoExpiry(e) == e = NULL \/ e = EMPTY

SameExpiry(x, y) == (NoExpiry(x) /\ NoExpiry(y)) \/ x = y

CaseFold(s) == [i \in 1..Len(s) |-> IF s[i] >= 65 /\ s[i] <= 90 THEN s[i] + 32 ELSE s[i]]

\* the mergeable key: same area, same name ignoring case, same expiry
SameKey(a, b) ==
  /\ a.storageAreaId = b.storageAreaId
  /\ CaseFold(a.name) = CaseFold(b.name)
  /\ SameExpiry(a.expiryDate, b.expiryDate)

Unopened(its) == { i \in DOMAIN its : ~its[i].isOpened }

\* C1: at most one unopened item exists per mergeable key (area, name ignoring
\* case, expiry) in every reachable state
C1_OneUnopenedPerKey ==
  \A i, j \in Unopened(items) : SameKey(items[i], items[j]) => i = j

\* C2: every stored item has a quantity of at least 1 in every reachable state
C2_QuantityAtLeastOne ==
  \A i \in DOMAIN items : items[i].quantity >= 1

OrdersOf(ars) == { ars[a].order : a \in DOMAIN ars }

IsPermutation(ars) ==
  /\ OrdersOf(ars) = 0..(Cardinality(DOMAIN ars) - 1)
  /\ \A a, b \in DOMAIN ars : ars[a].order = ars[b].order => a = b

\* C3: the order values of the storage areas are always a permutation of
\* 0..count-1
C3_OrderIsPermutation == IsPermutation(areas)

\* a name that is absent or empty after trimming
BlankName(name) == name = NoName \/ Trim(name) = <<>>

\* a body that POST /api/items accepts
ValidBody(b) == ~BlankName(b.name) /\ b.quantity >= 1 /\ b.storageAreaId # NULL

\* the key that a body asks for
ReqKey(b) == [storageAreaId |-> b.storageAreaId, name |-> Trim(b.name),
              expiryDate |-> b.expiryDate]

Create(b) == CreateOrMergeItem(b.name, b.quantity, b.storageAreaId, b.expiryDate)

\* the step adds the body's quantity to item e and changes nothing else
MergedInto(e, b) == items' = [items EXCEPT ![e].quantity = @ + b.quantity]

\* C4: a createOrMergeItem call whose key an unopened item already has (a
\* second call with the same key) leaves that one record, with the sum of the
\* quantities and the id, createdAt and name of the first call
C4_SecondCallMerges ==
  [][\A b \in CreateInputs :
       (ValidBody(b) /\ Create(b)) =>
         \A e \in Unopened(items) :
           SameKey(items[e], ReqKey(b)) =>
             /\ MergedInto(e, b)
             /\ last'.body = <<items'[e]>>
             /\ items'[e].id = items[e].id
             /\ items'[e].createdAt = items[e].createdAt
             /\ items'[e].name = items[e].name]_vars

\* C5: createOrMergeItem merges into an unopened item exactly when the area is
\* the same, the names are equal ignoring case and the expiries are equal, two
\* absent expiries being equal
C5_MergeExactlyOnEqualKey ==
  [][\A b \in CreateInputs :
       (ValidBody(b) /\ Create(b)) =>
         /\ \A e \in Unopened(items) :
              MergedInto(e, b) => SameKey(items[e], ReqKey(b))
         /\ (\E e \in Unopened(items) : SameKey(items[e], ReqKey(b)))
              => \E e \in Unopened(items) :
                   SameKey(items[e], ReqKey(b)) /\ MergedInto(e, b)]_vars

\* only opened items have the key of the body
OnlyOpenedMatch(b) ==
  /\ \E e \in DOMAIN items : items[e].isOpened /\ SameKey(items[e], ReqKey(b))
  /\ \A e \in Unopened(items) : ~SameKey(items[e], ReqKey(b))

\* C6: createOrMergeItem leaves every opened item as it was, and when only
\* opened items have the key it adds a new unopened record under a fresh id
C6_OpenedNeverMerged ==
  [][/\ \/ \A e \in DOMAIN items :
            items[e].isOpened => e \in DOMAIN items' /\ items'[e] = items[e]
        \/ \A b \in MergeCreateInputs : ~Create(b)
     /\ \A b \in MergeCreateInputs :
          (last'.op = "createOrMergeItem" /\ ValidBody(b) /\ OnlyOpenedMatch(b)
             /\ Create(b)) =>
            \E n \in DOMAIN items' :
              /\ n \notin DOMAIN items
              /\ n >= clock
              /\ DOMAIN items' = DOMAIN items \cup {n}
              /\ \A e \in DOMAIN items : items'[e] = items[e]
              /\ ~items'[n].isOpened
              /\ items'[n].quantity = b.quantity
              /\ SameKey(items'[n], ReqKey(b))
              /\ last'.body = <<items'[n]>>]_vars

\* a new record was stored although an opened item has its key
C6_Witness ==
  /\ last.op = "createOrMergeItem"
  /\ last.status = 201
  /\ \E e \in DOMAIN items :
       /\ items[e].isOpened
       /\ e # last.body[1].id
       /\ SameKey(items[e], last.body[1])
  /\ last.body[1].id \in Unopened(items)

\* C7: opening fewer than an item holds returns two records whose quantities
\* sum to the quantity it held, both with its name and area, the new one with
\* its createdAt; the total stored quantity does not change
C7_SplitOpen ==
  [][\A id \in ItemIdInputs, quantityToOpen \in QtyInputs :
       (id \in DOMAIN items /\ quantityToOpen < items[id].quantity
          /\ OpenItem(id, quantityToOpen)) =>
         /\ Len(last'.body) = 2
         /\ last'.body[1].quantity + last'.body[2].quantity = items[id].quantity
         /\ last'.body[2].quantity = quantityToOpen
         /\ \A k \in 1..2 :
              /\ last'.body[k].name = items[id].name
              /\ last'.body[k].storageAreaId = items[id].storageAreaId
              /\ last'.body[k].id \in DOMAIN items'
              /\ items'[last'.body[k].id] = last'.body[k]
         /\ last'.body[1].id = id
         /\ last'.body[2].id \notin DOMAIN items
         /\ last'.body[2].createdAt = items[id].createdAt
         /\ totalQuantity(items') = totalQuantity(items)]_vars

\* a split has answered with an unopened and an opened record
C7_Witness ==
  /\ last.op = "openItem"
  /\ Len(last.body) = 2
  /\ last.body[1].quantity >= 1
  /\ last.body[2].quantity >= 1
  /\ last.body[2].isOpened
  /\ ~last.body[1].isOpened

\* C8: opening at least as many as an item holds opens it in place: one record
\* comes back, with the same id and quantity, opened and with openedAt set, and
\* the number of items does not change
C8_FullOpen ==
  [][\A id \in ItemIdInputs, quantityToOpen \in QtyInputs :
       (id \in DOMAIN items /\ quantityToOpen >= items[id].quantity
          /\ OpenItem(id, quantityToOpen)) =>
         /\ Len(last'.body) = 1
         /\ last'.body[1].id = id
         /\ last'.body[1].quantity = items[id].quantity
         /\ last'.body[1].isOpened
         /\ last'.body[1].openedAt # NULL
         /\ last'.body[1].openedAt = clock
         /\ DOMAIN items' = DOMAIN items
         /\ items'[id] = last'.body[1]
         /\ \A i \in DOMAIN items \ {id} : items'[i] = items[i]]_vars

\* an item was opened in place
C8_Witness ==
  /\ last.op = "openItem"
  /\ last.status = 200
  /\ Len(last.body) = 1
  /\ last.body[1].isOpened
  /\ last.body[1].quantity >= 2
  /\ items[last.body[1].id] = last.body[1]

\* an id that was issued and whose record is gone
Removed(id) == id < clock /\ id \notin DOMAIN items

\* C9: adjustQuantity with less than 1 removes the record, and from then on
\* adjustQuantity, openItem and deleteItem by that id answer NotFound; with 1 or
\* more it sets exactly that quantity and changes no other field and no other
\* item
C9_AdjustQuantity ==
  [][/\ \A id \in ItemIdInputs, quantity \in QtyInputs :
          (id \in DOMAIN items /\ AdjustQuantity(id, quantity)) =>
            IF quantity < 1
            THEN /\ Removed(id)'
                 /\ DOMAIN items' = DOMAIN items \ {id}
                 /\ \A i \in DOMAIN items' : items'[i] = items[i]
            ELSE items' = [items EXCEPT ![id].quantity = quantity]
     /\ \A id \in ItemIdInputs :
          Removed(id) =>
            /\ Removed(id)'
            /\ \A quantity \in QtyInputs :
                 (AdjustQuantity(id, quantity) \/ OpenItem(id, quantity) \/ DeleteItem(id))
                   => last'.status = 404 /\ items' = items]_vars

\* adjustQuantity has removed a record while another one stays
C9_Witness ==
  /\ last.op = "adjustQuantity"
  /\ last.status = 204
  /\ \E id \in ItemIdInputs : Removed(id)
  /\ items # NoItems

\* C10: deleting one of N areas whose orders are 0..N-1 removes the area and
\* the items in it, leaves the other items as they were, and leaves the other
\* areas with the orders 0..N-2 in the relative order they had
C10_DeleteArea ==
  [][\A id \in AreaIds :
       (id \in DOMAIN areas /\ IsPermutation(areas) /\ DeleteArea(id)) =>
         /\ DOMAIN areas' = DOMAIN areas \ {id}
         /\ DOMAIN items' = { i \in DOMAIN items : items[i].storageAreaId # id }
         /\ \A i \in DOMAIN items' : items'[i] = items[i]
         /\ IsPermutation(areas')
         /\ \A a, b \in DOMAIN areas' :
              (areas[a].order < areas[b].order) <=> (areas'[a].order < areas'[b].order)
         /\ \A a \in DOMAIN areas' : areas'[a] = [areas[a] EXCEPT !.order = areas'[a].order]]_vars

\* an area was deleted, areas and items of other areas are left, and the orders
\* are 0..N-2
C10_Witness ==
  /\ last.op = "deleteArea"
  /\ last.status = 204
  /\ Cardinality(DOMAIN areas) >= 2
  /\ IsPermutation(areas)
  /\ items # NoItems

\* C11: the writes of deleteArea land all or none, so that between requests,
\* and after a restart, the orders of the areas are a permutation of 0..count-1
C11_NeverObservedPartial == pc = Idle => IsPermutation(areas)

\* C13: a split openItem that has reduced the quantity of the original does not
\* end, by a reply or by a stop of the process, without the opened record
C13_SplitAllOrNothing ==
  [][(pc.op = "openItem" /\ pc.at = 1 /\ pc' = Idle) =>
       \E n \in DOMAIN items' : n \notin DOMAIN items /\ items'[n].isOpened]_vars

\* C12: two createOrMergeItem requests for one key that arrive together are
\* served one after the other, each handler running its lookup and its write
\* without a break; after the second, one unopened record has the key, and it
\* holds what the first left plus the quantity of the second
C12_ConcurrentCreatesMerge ==
  [][\A b \in CreateInputs :
       (/\ last.op = "createOrMergeItem"
        /\ last.status \in { 200, 201 }
        /\ ValidBody(b)
        /\ SameKey(last.body[1], ReqKey(b))
        /\ Create(b)) =>
         /\ Cardinality({ i \in Unopened(items') :
                            SameKey(items'[i], ReqKey(b)) }) = 1
         /\ items'[last.body[1].id].quantity = last.body[1].quantity + b.quantity]_vars

NotFoundUnchanged == last'.status = 404 /\ items' = items /\ areas' = areas

\* C14: adjustQuantity, openItem, deleteItem, updateArea and deleteArea with an
\* id that no record has answer NotFound and change no item and no area
C14_NotFoundNoMutation ==
  [][/\ \A id \in ItemIdInputs :
          (id \notin DOMAIN items
             /\ (\/ \E quantity \in QtyInputs :
                      AdjustQuantity(id, quantity) \/ OpenItem(id, quantity)
                 \/ DeleteItem(id)))
            => NotFoundUnchanged
     /\ \A id \in AreaIds :
          (id \notin DOMAIN areas
             /\ (\/ \E body \in UpdateAreaInputs :
                      UpdateArea(id, body.name, body.icon, body.color, body.order)
                 \/ DeleteArea(id)))
            => NotFoundUnchanged]_vars

\* deleteArea has answered NotFound while items and areas are stored
C14_Witness ==
  /\ last.op = "deleteArea"
  /\ last.status = 404
  /\ items # NoItems
  /\ Cardinality(DOMAIN areas) >= 2

\* C15: createOrMergeItem with a blank name, a quantity below 1 or no
\* storageAreaId, and createArea with a blank name, are rejected and leave the
\* items and the areas as they were
C15_ValidationNoMutation ==
  [][/\ \A b \in CreateInputs :
          (~ValidBody(b) /\ Create(b)) =>
            last'.status = 400 /\ items' = items /\ areas' = areas
     /\ \A b \in CreateAreaInputs :
          (BlankName(b.name) /\ CreateArea(b.name, b.icon, b.color)) =>
            last'.status = 400 /\ items' = items /\ areas' = areas]_vars

\* createOrMergeItem was rejected while an item is stored
C15_Witness ==
  /\ last.op = "createOrMergeItem"
  /\ last.status = 400
  /\ items # NoItems

\* the expiry that an opened record is to have, from the expiry of the item and
\* the calendar day of the opening
ExpectedExpiry(expiryDate) ==
  LET daysLeft == expiryDate - Today
  IN IF daysLeft > 1
     THEN Today + (IF daysLeft \div 2 >= 1 THEN daysLeft \div 2 ELSE 1)
     ELSE expiryDate

\* the record that openItem has opened: the last one of its reply
OpenedRecord(body) == body[Len(body)]

\* C16: openItem, in a full open and in a split, gives the opened record the
\* expiry today + max(1, floor(daysLeft / 2)) when daysLeft > 1, and the expiry
\* of the original when daysLeft <= 1 or when there is none
C16_ExpiryRecompute ==
  [][\A id \in ItemIdInputs, quantityToOpen \in { 1, 2 } :
       (id \in DOMAIN items /\ OpenItem(id, quantityToOpen)) =>
         IF NoExpiry(items[id].expiryDate)
         THEN NoExpiry(OpenedRecord(last'.body).expiryDate)
         ELSE OpenedRecord(last'.body).expiryDate = ExpectedExpiry(items[id].expiryDate)]_vars

\* C17: an item has an openedAt timestamp exactly when it is opened, in every
\* reachable state, and a record that createOrMergeItem adds is unopened and
\* has no openedAt
C17_OpenedAtIffOpened ==
  /\ [](\A i \in DOMAIN items : (items[i].openedAt # NULL) <=> items[i].isOpened)
  /\ [][\A b \in OpenCreateInputs :
          (last'.status = 201 /\ Create(b)) =>
            \E n \in DOMAIN items' :
              /\ n \notin DOMAIN items
              /\ ~items'[n].isOpened
              /\ items'[n].openedAt = NULL
              /\ last'.body = <<items'[n]>>]_vars

\* an opened item with its timestamp is stored next to a record that
\* createOrMergeItem has just added
C17_Witness ==
  /\ last.op = "createOrMergeItem"
  /\ last.status = 201
  /\ items[last.body[1].id].openedAt = NULL
  /\ \E i \in DOMAIN items : items[i].isOpened /\ items[i].openedAt # NULL

\* C18: a record that is opened stays opened, and every later operation that
\* keeps it leaves its openedAt and its expiryDate as they were
C18_OpenedFieldsFrozen ==
  [][\A i \in DOMAIN items :
       (items[i].isOpened /\ i \in DOMAIN items') =>
         /\ items'[i].isOpened
         /\ items'[i].openedAt = items[i].openedAt
         /\ SameExpiry(items'[i].expiryDate, items[i].expiryDate)]_vars

\* the AI stage is not configured, or it does not give a list of items
AiFails(ai) == ~ai.configured \/ ai.kind \in { "throws", "noArray", "badJson" }

C20_NoDislikedSuggested ==
  [][/\ (pc = Idle /\ pc'.op = "suggestFromRecipes") =>
          \A i \in DOMAIN pc'.arg.recipes : \A d \in disliked :
            CaseFold(pc'.arg.recipes[i]) # CaseFold(d)
     /\ (pc.op = "suggestFromRecipes" /\ pc' = Idle /\ last'.status = 200) =>
          \A i \in DOMAIN last'.body.recipes : \A d \in pc.arg.dislikedRecipes :
            CaseFold(last'.body.recipes[i].name) # CaseFold(d)]_vars

\* a suggestion was answered with a recipe after a disliked candidate was held
\* back and a recipe of the reply was dropped
C20_Witness ==
  /\ pc = Idle
  /\ last.op = "suggestFromRecipes"
  /\ last.status = 200
  /\ disliked # {}
  /\ last.body.sent < last.body.asked
  /\ Len(last.body.recipes) >= 1
  /\ Len(last.body.recipes) < last.body.parsed

\* C21: a storage area that is created gets the largest order plus 1, or 0
\* when there is no area, and every area that existed stays as it was; when the
\* orders were 0..N-1 they are 0..N afterwards and every listing ends with the
\* new area
C21_CreateAreaAppends ==
  [][(last'.op = "createArea" /\ last'.status = 201 /\ areas' # areas) =>
       \E n \in DOMAIN areas' \ DOMAIN areas :
         /\ DOMAIN areas' = DOMAIN areas \cup { n }
         /\ \A a \in DOMAIN areas : areas'[a] = areas[a]
         /\ \A a \in DOMAIN areas : areas[a].order < areas'[n].order
         /\ \/ DOMAIN areas = {} /\ areas'[n].order = 0
            \/ \E a \in DOMAIN areas : areas'[n].order = areas[a].order + 1
         /\ IsPermutation(areas) =>
              /\ areas'[n].order = Cardinality(DOMAIN areas)
              /\ IsPermutation(areas')
              /\ \A rows \in getAll(areas') : rows[Len(rows)] = n]_vars

\* an area was created behind two others whose orders are not 0 and 1
C21_Witness ==
  /\ last.op = "createArea"
  /\ last.status = 201
  /\ Cardinality(DOMAIN areas) = 3
  /\ ~IsPermutation(areas)
  /\ \E n \in DOMAIN areas : n \in 1..MaxClock /\ last.body[1] = areas[n]

\* the positions of an id in an array of ids
PositionsOf(ids, id) == { i \in DOMAIN ids : ids[i] = id }

\* a reorder changes the order of areas and nothing else
ReorderFrame ==
  /\ DOMAIN areas' = DOMAIN areas
  /\ \A a \in DOMAIN areas : areas' [a] = [areas[a] EXCEPT !.order = areas'[a].order]
  /\ UNCHANGED <<items, clock, tz, disliked, store, card, pc>>

\* the ids are an arrangement of all the areas
IsArrangement(ids) ==
  /\ Len(ids) = Cardinality(DOMAIN areas)
  /\ { ids[i] : i \in DOMAIN ids } = DOMAIN areas

C23_UpdateAreaKeepsOmitted ==
  [][\A id \in { freezer, pantry, 100 }, body \in UpdateFieldInputs :
       (/\ last'.op = "updateArea"
        /\ id \in DOMAIN areas
        /\ UpdateArea(id, body.name, body.icon, body.color, body.order)) =>
         /\ DOMAIN areas' = DOMAIN areas
         /\ areas'[id].id = id
         /\ BlankName(body.name) => areas'[id].name = areas[id].name
         /\ body.icon = NoTag => areas'[id].icon = areas[id].icon
         /\ body.color = NoTag => areas'[id].color = areas[id].color
         /\ body.order = NULL => areas'[id].order = areas[id].order
         /\ \A a \in DOMAIN areas \ { id } : areas'[a] = areas[a]
         /\ items' = items]_vars

\* the freezer, which holds an item, was renamed and moved, and its icon and
\* color are the seeded ones
C23_Witness ==
  /\ last.op = "updateArea"
  /\ last.status = 200
  /\ last.body[1].id = freezer
  /\ areas[freezer].name = <<66>>
  /\ areas[freezer].order = 1
  /\ areas[freezer].icon = "snowflake"
  /\ areas[freezer].color = "blue"
  /\ areas[pantry].icon = "box"
  /\ DOMAIN items # {}

\* C24: in a split the original record changes in its quantity only, and of the
\* two records only the new one is opened, with the time of the split as its
\* openedAt and with the recomputed expiry
C24_SplitChangesQuantityOnly ==
  [][\A id \in ItemIdInputs, quantityToOpen \in QtyInputs :
       (/\ last'.op = "openItem"
        /\ id \in DOMAIN items
        /\ quantityToOpen < items[id].quantity
        /\ OpenItem(id, quantityToOpen)) =>
         /\ items'[id] = [items[id] EXCEPT !.quantity = items[id].quantity - quantityToOpen]
         /\ ~items'[id].isOpened
         /\ \E n \in DOMAIN items' \ DOMAIN items :
              /\ DOMAIN items' = DOMAIN items \cup { n }
              /\ items'[n].isOpened
              /\ items'[n].openedAt = clock
              /\ IF NoExpiry(items[id].expiryDate)
                 THEN NoExpiry(items'[n].expiryDate)
                 ELSE items'[n].expiryDate = ExpectedExpiry(items[id].expiryDate)
         /\ \A i \in DOMAIN items \ { id } : items'[i] = items[i]]_vars

\* C28: in every reachable state the storageAreaId of every stored item is the
\* id of a storage area; a createOrMergeItem that names an area that does not
\* exist stores nothing, and a deleteArea leaves no item of the deleted area
C28_ItemsReferenceAreas ==
  /\ [](\A i \in DOMAIN items : items[i].storageAreaId \in DOMAIN areas)
  /\ [][/\ \A b \in MergeCreateInputs :
             (/\ last'.op = "createOrMergeItem"
              /\ b.storageAreaId \notin DOMAIN areas
              /\ Create(b)) => items' = items
        /\ \A id \in { fridge, 100 } :
             (/\ last'.op = "deleteArea"
              /\ last'.status = 204
              /\ DeleteArea(id)) =>
               /\ id \notin DOMAIN areas'
               /\ \A i \in DOMAIN items' : items'[i].storageAreaId # id]_vars

\* the fridge was deleted with the items it held, and an item is left in the
\* freezer
C28_Witness ==
  /\ last.op = "deleteArea"
  /\ last.status = 204
  /\ fridge \notin DOMAIN areas
  /\ items # NoItems
  /\ clock > MaxClock

\* the store function named fn has its request in flight
Awaiting(fn) == store.call.fn = fn /\ last.op = "fetch"
\* the store function named fn has a successful reply and sets the state
Succeeds(fn) == store.call.fn = fn /\ Ok(last) /\ store'.call.fn = "none"
\* the cached records with an id
CachedWith(its, id) == { i \in DOMAIN its : its[i].id = id }

\* C25: updateItemQuantity with a quantity below 1 has the server run the delete
\* of that id and never the quantity update, and on success the cache is the
\* cache without the item; with a quantity of 1 or more the server runs the
\* quantity update, and on success the cached item is the returned record
C25_StoreQuantity ==
  [][/\ (Awaiting("updateItemQuantity") /\ last'.op # "fetch" /\ last'.op # "fetchFailed") =>
          IF store.call.arg < 1
          THEN /\ last'.op = "deleteItem"
               /\ store.call.id \notin DOMAIN items'
          ELSE /\ last'.op = "adjustQuantity"
               /\ store.call.id \in DOMAIN items =>
                    items' = [items EXCEPT ![store.call.id].quantity = store.call.arg]
     /\ Succeeds("updateItemQuantity") =>
          IF store.call.arg < 1
          THEN /\ CachedWith(store'.items, store.call.id) = {}
               /\ store'.items = SelectSeq(store.items, LAMBDA item : item.id # store.call.id)
          ELSE /\ Len(store'.items) = Len(store.items)
               /\ \A i \in DOMAIN store.items :
                    store'.items[i] = IF store.items[i].id = store.call.id
                                      THEN last.body[1] ELSE store.items[i]
               /\ last.body[1].id = store.call.id
               /\ last.body[1].quantity = store.call.arg]_vars

\* an item that was added was taken off the cache by a quantity of 0, with no
\* request that failed
C25_Witness ==
  /\ store.call.fn = "none"
  /\ store.error = NoError
  /\ last.op = "deleteItem"
  /\ last.status = 204
  /\ clock > 1
  /\ store.items = <<>>
  /\ items = NoItems

\* no id is cached twice
NoCachedTwice(its) == \A i, j \in DOMAIN its : its[i].id = its[j].id => i = j

\* C26: a successful openItem puts the records that the server returned in the
\* place of the cached original: one opened record when the item was opened in
\* full, one unopened and one opened record whose quantities sum to the
\* quantity of the original when it was split, and no id is cached twice
C26_StoreOpen ==
  [][Succeeds("openItem") =>
       LET id == store.call.id
           rest == SelectSeq(store.items, LAMBDA item : item.id # id)
       IN /\ store'.items = rest \o last.body
          /\ NoCachedTwice(store'.items)
          /\ \A i \in CachedWith(store.items, id) :
               \/ /\ Len(last.body) = 1
                  /\ last.body[1].isOpened
                  /\ last.body[1].id = id
               \/ /\ Len(last.body) = 2
                  /\ ~last.body[1].isOpened
                  /\ last.body[2].isOpened
                  /\ last.body[1].quantity + last.body[2].quantity
                       = store.items[i].quantity]_vars

\* C27: a successful deleteStorageArea takes the area and every item of the
\* area off the cache and leaves the rest of it; when the request fails the
\* cached areas and items stay as they were and the error is set
C27_StoreDeleteArea ==
  [][(store.call.fn = "deleteStorageArea" /\ store'.call.fn = "none") =>
       LET id == store.call.id IN
       IF Ok(last)
       THEN /\ store'.storageAreas = SelectSeq(store.storageAreas, LAMBDA area : area.id # id)
            /\ store'.items = SelectSeq(store.items, LAMBDA item : item.storageAreaId # id)
            /\ \A i \in DOMAIN store'.storageAreas : store'.storageAreas[i].id # id
            /\ \A i \in DOMAIN store'.items : store'.items[i].storageAreaId # id
       ELSE /\ store'.storageAreas = store.storageAreas
            /\ store'.items = store.items
            /\ store'.error # NoError]_vars

\* the fridge and its item were taken off the cache, the item of the freezer
\* is cached, and no request has failed
C27_Witness ==
  /\ store.call.fn = "none"
  /\ store.error = NoError
  /\ last.op = "deleteArea"
  /\ last.status = 204
  /\ clock >= 3
  /\ Len(store.storageAreas) = 2
  /\ Len(store.items) = 1
  /\ store.items[1].storageAreaId = freezer

\* a cached item is the stored item: the same fields, an expiry that is not
\* given taken as the same
SameItem(c, r) ==
  /\ c.id = r.id
  /\ c.name = r.name
  /\ c.quantity = r.quantity
  /\ c.storageAreaId = r.storageAreaId
  /\ c.createdAt = r.createdAt
  /\ c.isOpened = r.isOpened
  /\ c.openedAt = r.openedAt
  /\ SameExpiry(c.expiryDate, r.expiryDate)

\* the cached items are the stored items
CacheHasItems ==
  /\ NoCachedTwice(store.items)
  /\ { store.items[i].id : i \in DOMAIN store.items } = DOMAIN items
  /\ \A i \in DOMAIN store.items : SameItem(store.items[i], items[store.items[i].id])

\* the cached areas are the stored areas, with their order values
CacheHasAreas ==
  /\ \A i, j \in DOMAIN store.storageAreas :
       store.storageAreas[i].id = store.storageAreas[j].id => i = j
  /\ { store.storageAreas[i].id : i \in DOMAIN store.storageAreas } = DOMAIN areas
  /\ \A i \in DOMAIN store.storageAreas :
       store.storageAreas[i] = areas[store.storageAreas[i].id]

\* C29: with one user whose requests have all succeeded, whenever no store
\* function is running the cached items and areas, order values included, are
\* the items and areas that the server stores
C29_CacheEqualsServer ==
  (store.call.fn = "none" /\ store.error = NoError) => (CacheHasItems /\ CacheHasAreas)

\* the recipe of the card is among the saved recipes and in the disliked table
SavedAndDisliked ==
  /\ isRecipeSaved(card.saved, RecipeName)
  /\ getByName(disliked, RecipeName) # {}

\* C30: once every request of the card has been answered and its continuation
\* has run, the recipe is not both saved and disliked, whatever the order of
\* the clicks, the replies and the failures has been
C30_NeverSavedAndDisliked ==
  card.flight = <<>> => ~SavedAndDisliked

====
